---- MODULE Spec2Model ----
(***************************************************************************)
(* A model of vapi-memory: the LRUCache (src/utils/cache), the             *)
(* TokenCounter, the ContextFormatter and VapiMemory.getContext.           *)
(*                                                                         *)
(* Text is a sequence of one-character strings, so that toLowerCase, trim  *)
(* and split act on characters as the JavaScript methods do.  JavaScript   *)
(* values held by the cache are records with a field t naming their type.  *)
(***************************************************************************)
EXTENDS Integers, Sequences, FiniteSets, TLC

VARIABLES
    lru,          \* LRUCache under test: [entries, currentSize, maxSize]
    now,          \* Date.now()
    lastCall,     \* the last LRUCache call, what it returned, the keys it evicted
    touched,      \* history: keys in the cache, least recently touched first
    fmtSections,  \* ContextFormatter.format: the caller's list of sections
    fmtOptions,   \* ContextFormatter.format: the FormatOptions passed
    fmtResult,    \* ContextFormatter.format: the FormattedOutput, once returned
    simInputs,    \* calculateSimilarity: the two strings passed
    simResult,    \* calculateSimilarity: the number returned, once returned
    options,      \* VapiMemory.options
    profileCache, \* VapiMemory.profileCache
    cleanupInterval, \* VapiMemory.cleanupInterval is set
    calls,        \* the getContext calls: each one's position, locals and result
    fetchedAt,    \* history: when the response cached for a user was fetched
    promo,        \* history of a get on a full LRUCache and the sets after it
    served,       \* history: the LRUCache under test served a get hit, a get miss
    warm          \* history: users whose profile a fetch that succeeded put in
                  \* the cache, and no sweep, clear, destroy or eviction removed

cacheVars == <<lru, lastCall, touched>>
fmtVars == <<fmtSections, fmtOptions, fmtResult>>
simVars == <<simInputs, simResult>>
vmVars == <<options, profileCache, cleanupInterval, calls, warm, fetchedAt>>
histVars == <<promo, served>>
vars == <<lru, now, lastCall, touched, fmtSections, fmtOptions, fmtResult,
          simInputs, simResult, promo, served,
          options, profileCache, cleanupInterval, calls, warm, fetchedAt>>

\* what a call on the LRUCache under test, a call of format, and a step of
\* VapiMemory leave alone
notCacheVars == <<fmtVars, simVars, vmVars, histVars>>
notFmtVars == <<lru, now, lastCall, touched, simVars, vmVars, histVars>>
notVmVars == <<cacheVars, fmtVars, simVars, histVars>>
notSimVars == <<lru, now, lastCall, touched, fmtVars, vmVars, histVars>>

-----------------------------------------------------------------------------
(* Bounds of the model *)

MaxCap == 2       \* largest maxSize an LRUCache under test is built with
MaxTime == 1       \* the clock ticks that pass in a run of an LRUCache under test
MaxHits == 1       \* get is not called for an entry with this many hits
MaxSections == 3  \* longest list of sections handed to ContextFormatter.format
MaxCacheHits == 1 \* getContext is not called for a cached profile with this many hits
MaxServed == 3    \* as MaxCacheHits, for the runs that follow one cached profile
MaxAgeClock == 3  \* as MaxClock, for the runs that follow one cached profile
MaxClock == 2     \* the sweep intervals that pass in a run of VapiMemory

-----------------------------------------------------------------------------
(* Generic helpers *)

Max(a, b) == IF a >= b THEN a ELSE b

CeilDiv(a, b) == (a + b - 1) \div b

Range(s) == {s[i] : i \in 1..Len(s)}

RECURSIVE SumSeq(_)
SumSeq(s) == IF s = <<>> THEN 0 ELSE Head(s) + SumSeq(Tail(s))

\* The subsequence of s at the positions where keep holds, order preserved.
SelectIdx(s, keep(_)) ==
    LET F[i \in 0..Len(s)] ==
            IF i = 0 THEN <<>>
            ELSE IF keep(i) THEN Append(F[i - 1], s[i]) ELSE F[i - 1]
    IN  F[Len(s)]

-----------------------------------------------------------------------------
(* JavaScript values *)

Undefined == [t |-> "undefined"]
Num(n) == [t |-> "number", n |-> n]

-----------------------------------------------------------------------------
(* LRUCache<K, V>: a Map in insertion order plus a size counter *)

\* new LRUCache(maxSize)
LRUNew(maxSize) == [entries |-> <<>>, currentSize |-> 0, maxSize |-> maxSize]

\* Map.prototype.has / LRUCache.has
LRUHas(c, key) == \E i \in 1..Len(c.entries) : c.entries[i].key = key

LRUIndex(c, key) == CHOOSE i \in 1..Len(c.entries) : c.entries[i].key = key

\* Map.prototype.delete on the entry list
MapDelete(entries, key) == SelectSeq(entries, LAMBDA e : e.key # key)

\* a get that leaves the entry where it was in the order
LRUGetNoPromote(c, key, t) ==
    IF LRUHas(c, key)
    THEN LET i == LRUIndex(c, key)
             e == c.entries[i]
         IN  [c EXCEPT !.entries[i] =
                [e EXCEPT !.hits = e.hits + 1, !.timestamp = t]]
    ELSE c

\* LRUCache.get: the state it leaves
LRUGet(c, key, t) ==
    IF LRUHas(c, key)
    THEN LET e == c.entries[LRUIndex(c, key)]
         IN  [c EXCEPT !.entries =
                Append(MapDelete(c.entries, key),
                       [e EXCEPT !.hits = e.hits + 1, !.timestamp = t])]
    ELSE c

\* LRUCache.get: the value it returns
LRUGetValue(c, key) ==
    IF LRUHas(c, key) THEN c.entries[LRUIndex(c, key)].value ELSE Undefined

\* a set that never evicts
LRUSetNoEvict(c, key, value, t) ==
    LET had == LRUHas(c, key)
        e1 == IF had THEN MapDelete(c.entries, key) ELSE c.entries
        n1 == IF had THEN c.currentSize - 1 ELSE c.currentSize
    IN  [c EXCEPT
            !.entries = Append(e1, [key |-> key, value |-> value,
                                    timestamp |-> t, hits |-> 0]),
            !.currentSize = n1 + 1]

\* a set that evicts the newest entry instead of the oldest
LRUSetEvictNewest(c, key, value, t) ==
    LET had == LRUHas(c, key)
        e1 == IF had THEN MapDelete(c.entries, key) ELSE c.entries
        n1 == IF had THEN c.currentSize - 1 ELSE c.currentSize
        evict == n1 >= c.maxSize /\ e1 # <<>>
        e2 == IF evict THEN SubSeq(e1, 1, Len(e1) - 1) ELSE e1
        n2 == IF evict THEN n1 - 1 ELSE n1
    IN  [c EXCEPT
            !.entries = Append(e2, [key |-> key, value |-> value,
                                    timestamp |-> t, hits |-> 0]),
            !.currentSize = n2 + 1]

\* a set that checks the capacity before it removes the entry it overwrites
LRUSetEvictsOnUpdate(c, key, value, t) ==
    LET evict == c.currentSize >= c.maxSize /\ c.entries # <<>>
        e1 == IF evict THEN Tail(c.entries) ELSE c.entries
        n1 == IF evict THEN c.currentSize - 1 ELSE c.currentSize
        had == \E i \in 1..Len(e1) : e1[i].key = key
        e2 == IF had THEN MapDelete(e1, key) ELSE e1
        n2 == IF had THEN n1 - 1 ELSE n1
    IN  [c EXCEPT
            !.entries = Append(e2, [key |-> key, value |-> value,
                                    timestamp |-> t, hits |-> 0]),
            !.currentSize = n2 + 1]

\* LRUCache.set
LRUSet(c, key, value, t) ==
    LET had == LRUHas(c, key)
        e1 == IF had THEN MapDelete(c.entries, key) ELSE c.entries
        n1 == IF had THEN c.currentSize - 1 ELSE c.currentSize
        \* keys().next().value is undefined only when the map is empty
        evict == n1 >= c.maxSize /\ e1 # <<>>
        e2 == IF evict THEN Tail(e1) ELSE e1
        n2 == IF evict THEN n1 - 1 ELSE n1
    IN  [c EXCEPT
            !.entries = Append(e2, [key |-> key, value |-> value,
                                    timestamp |-> t, hits |-> 0]),
            !.currentSize = n2 + 1]

\* LRUCache.delete
LRUDelete(c, key) ==
    IF LRUHas(c, key)
    THEN [c EXCEPT !.entries = MapDelete(c.entries, key),
                   !.currentSize = c.currentSize - 1]
    ELSE c

\* LRUCache.clear
LRUClear(c) == [c EXCEPT !.entries = <<>>, !.currentSize = 0]

\* LRUCache.size
LRUSize(c) == c.currentSize

\* LRUCache.keys
LRUKeys(c) == [i \in 1..Len(c.entries) |-> c.entries[i].key]

\* LRUCache.getStats; hitRate is the fraction n / d, 0 when totalAccess is 0
LRUGetStats(c, t) ==
    LET totalHits == SumSeq([i \in 1..Len(c.entries) |-> c.entries[i].hits])
        totalAccess == totalHits + (c.maxSize - Len(c.entries))
    IN  [t |-> "object",
         size |-> c.currentSize,
         maxSize |-> c.maxSize,
         hitRate |-> IF totalAccess > 0
                     THEN [n |-> totalHits, d |-> totalAccess]
                     ELSE [n |-> 0, d |-> 1],
         entries |-> [i \in 1..Len(c.entries) |->
                         [key |-> c.entries[i].key,
                          hits |-> c.entries[i].hits,
                          age |-> t - c.entries[i].timestamp]]]

\* LRUCache.cleanup: the entries it deletes
\* a cutoff that also takes the entries exactly maxAge old
ExpiredInclusive(c, maxAge, t) ==
    {c.entries[i].key : i \in {j \in 1..Len(c.entries) :
                                  c.entries[j].timestamp <= t - maxAge}}

\* LRUCache.cleanup: the keys with entry.timestamp < cutoffTime
Expired(c, maxAge, t) ==
    {c.entries[i].key : i \in {j \in 1..Len(c.entries) :
                                  c.entries[j].timestamp < t - maxAge}}

\* LRUCache.cleanup: this.delete(key) for every expired entry
LRUCleanup(c, maxAge, t) ==
    LET gone == Expired(c, maxAge, t)
    IN  [c EXCEPT
            !.entries = SelectSeq(c.entries, LAMBDA e : e.key \notin gone),
            !.currentSize = c.currentSize - Cardinality(gone)]

LRUCleanupCount(c, maxAge, t) == Cardinality(Expired(c, maxAge, t))

-----------------------------------------------------------------------------
(* Text: String.prototype.toLowerCase, trim, split(/\s+/), localeCompare *)

IsSpace(ch) == ch \in {" ", "\n"}

LowerOf(ch) ==
    CASE ch = "A" -> "a" [] ch = "B" -> "b" [] ch = "K" -> "k"
      [] ch = "O" -> "o" [] ch = "T" -> "t" [] OTHER -> ch

IsUpper(ch) == LowerOf(ch) # ch

ToLowerCase(s) == [i \in 1..Len(s) |-> LowerOf(s[i])]

RECURSIVE TrimStart(_)
TrimStart(s) ==
    IF s # <<>> /\ IsSpace(Head(s)) THEN TrimStart(Tail(s)) ELSE s

RECURSIVE TrimEnd(_)
TrimEnd(s) ==
    IF s # <<>> /\ IsSpace(s[Len(s)])
    THEN TrimEnd(SubSeq(s, 1, Len(s) - 1)) ELSE s

Trim(s) == TrimEnd(TrimStart(s))

\* s.split(/\s+/): the pieces between runs of whitespace, empty pieces at
\* either end included
SplitWs(s) ==
    LET F[i \in 0..Len(s)] ==
            IF i = 0 THEN [done |-> <<>>, cur |-> <<>>]
            ELSE LET prev == F[i - 1]
                 IN  IF IsSpace(s[i])
                     THEN IF i > 1 /\ IsSpace(s[i - 1]) THEN prev
                          ELSE [done |-> Append(prev.done, prev.cur),
                                cur |-> <<>>]
                     ELSE [prev EXCEPT !.cur = Append(@, s[i])]
        last == F[Len(s)]
    IN  Append(last.done, last.cur)

\* Number to decimal string, for n >= 0
RECURSIVE Digits(_)
Digits(n) ==
    LET d == <<"0", "1", "2", "3", "4", "5", "6", "7", "8", "9">>[(n % 10) + 1]
    IN  IF n < 10 THEN <<d>> ELSE Append(Digits(n \div 10), d)

\* Collation of the characters ids are written with: digits before letters,
\* letters in alphabetical order whatever their case
CollationOrder == <<"1", "2", "3", "a", "b", "c", "d", "e">>

PrimaryWeight(ch) ==
    CHOOSE i \in 1..Len(CollationOrder) : CollationOrder[i] = LowerOf(ch)

\* lexicographic comparison of two sequences of numbers: -1, 0 or 1
RECURSIVE LexCompare(_, _)
LexCompare(x, y) ==
    IF x = <<>> THEN (IF y = <<>> THEN 0 ELSE -1)
    ELSE IF y = <<>> THEN 1
    ELSE IF Head(x) < Head(y) THEN -1
    ELSE IF Head(x) > Head(y) THEN 1
    ELSE LexCompare(Tail(x), Tail(y))

\* x.localeCompare(y): by letters first; between strings with the same
\* letters, lower case sorts before upper case
LocaleCompare(x, y) ==
    LET prim == LexCompare([i \in 1..Len(x) |-> PrimaryWeight(x[i])],
                           [i \in 1..Len(y) |-> PrimaryWeight(y[i])])
    IN  IF prim # 0 THEN prim
        ELSE LexCompare([i \in 1..Len(x) |-> IF IsUpper(x[i]) THEN 1 ELSE 0],
                        [i \in 1..Len(y) |-> IF IsUpper(y[i]) THEN 1 ELSE 0])

-----------------------------------------------------------------------------
(* TokenCounter *)

CHARS_PER_TOKEN == 4

\* TokenCounter.estimate; TOKENS_PER_WORD = 0.75 is 3/4
Estimate(text) ==
    IF Len(text) = 0 THEN 0
    ELSE LET charEstimate == CeilDiv(Len(text), CHARS_PER_TOKEN)
             words == SelectSeq(SplitWs(text), LAMBDA w : Len(w) > 0)
             wordEstimate == CeilDiv(Len(words) * 3, 4)
         IN  Max(charEstimate, wordEstimate)

\* TokenCounter.estimateMultiple
EstimateMultiple(texts) ==
    SumSeq([i \in 1..Len(texts) |-> Estimate(texts[i])])

-----------------------------------------------------------------------------
(* ContextFormatter *)

\* ContextFormatter.calculateSimilarity, as the fraction n / d
\* a version that tests for an empty string before it tests for equality
CalculateSimilarityEmptyFirst(str1, str2) ==
    LET s1 == Trim(ToLowerCase(str1))
        s2 == Trim(ToLowerCase(str2))
        words1 == Range(SplitWs(s1))
        words2 == Range(SplitWs(s2))
    IN  IF Len(s1) = 0 \/ Len(s2) = 0 THEN [n |-> 0, d |-> 1]
        ELSE IF s1 = s2 THEN [n |-> 1, d |-> 1]
        ELSE [n |-> Cardinality(words1 \cap words2),
              d |-> Cardinality(words1 \cup words2)]

CalculateSimilarity(str1, str2) ==
    LET s1 == Trim(ToLowerCase(str1))
        s2 == Trim(ToLowerCase(str2))
        words1 == Range(SplitWs(s1))
        words2 == Range(SplitWs(s2))
    IN  IF s1 = s2 THEN [n |-> 1, d |-> 1]
        ELSE IF Len(s1) = 0 \/ Len(s2) = 0 THEN [n |-> 0, d |-> 1]
        ELSE [n |-> Cardinality(words1 \cap words2),
              d |-> Cardinality(words1 \cup words2)]

\* similarity > 0.85
IsNearDuplicate(sim) == sim.n * 100 > sim.d * 85

\* a comparator that leaves sections of equal priority in their input order
CompareSectionsNoTieBreak(a, b) ==
    IF b.priority # a.priority THEN b.priority - a.priority
    ELSE 0

\* a comparator that sorts the other way round
CompareSectionsAscending(a, b) ==
    IF b.priority # a.priority THEN a.priority - b.priority
    ELSE LocaleCompare(a.id, b.id)

\* The comparator of the sort in format: negative when a goes before b
CompareSections(a, b) ==
    IF b.priority # a.priority THEN b.priority - a.priority
    ELSE LocaleCompare(b.id, a.id)

\* Array.prototype.sort with that comparator: a stable sort
RECURSIVE InsertSorted(_, _)
InsertSorted(sorted, x) ==
    IF sorted = <<>> THEN <<x>>
    ELSE IF CompareSections(Head(sorted), x) <= 0
         THEN <<Head(sorted)>> \o InsertSorted(Tail(sorted), x)
         ELSE <<x>> \o sorted

SortSections(sections) ==
    LET F[i \in 0..Len(sections)] ==
            IF i = 0 THEN <<>> ELSE InsertSorted(F[i - 1], sections[i])
    IN  F[Len(sections)]

\* a pass that drops exact duplicates only
DedupStepExactOnly(st, section) ==
    LET normalized == Trim(ToLowerCase(section.content))
    IN  IF normalized \in st.seen THEN st
        ELSE [seen |-> st.seen \cup {normalized},
              deduplicated |-> Append(st.deduplicated, section)]

\* ContextFormatter.deduplicate: one pass, keeping [seen, deduplicated]
DedupStep(st, section) ==
    LET normalized == Trim(ToLowerCase(section.content))
        isDuplicate ==
            \E i \in 1..Len(st.deduplicated) :
                IsNearDuplicate(CalculateSimilarity(
                    st.deduplicated[i].content, section.content))
    IN  IF normalized \in st.seen THEN st
        ELSE IF isDuplicate THEN st
        ELSE [seen |-> st.seen \cup {normalized},
              deduplicated |-> Append(st.deduplicated, section)]

Deduplicate(sections) ==
    LET F[i \in 0..Len(sections)] ==
            IF i = 0 THEN [seen |-> {}, deduplicated |-> <<>>]
            ELSE DedupStep(F[i - 1], sections[i])
    IN  F[Len(sections)].deduplicated

\* a loop that stops at the first section that does not fit
SelectStepBreak(st, section, maxTokens) ==
    IF st.stopped \/ st.usedTokens + section.tokens > maxTokens
    THEN [st EXCEPT !.excluded = Append(@, section), !.stopped = TRUE]
    ELSE [st EXCEPT !.usedTokens = @ + section.tokens,
                    !.included = Append(@, section)]

\* a loop that lets the total pass the budget by one token
SelectStepOffByOne(st, section, maxTokens) ==
    IF st.usedTokens + section.tokens > maxTokens + 1
    THEN [st EXCEPT !.excluded = Append(@, section)]
    ELSE [st EXCEPT !.usedTokens = @ + section.tokens,
                    !.included = Append(@, section)]

\* The selection loop of format: [usedTokens, included, excluded, stopped]
SelectStep(st, section, maxTokens) ==
    IF st.usedTokens + section.tokens > maxTokens
    THEN [st EXCEPT !.excluded = Append(@, section)]
    ELSE [st EXCEPT !.usedTokens = @ + section.tokens,
                    !.included = Append(@, section)]

SelectWithinBudget(deduplicated, maxTokens) ==
    LET F[i \in 0..Len(deduplicated)] ==
            IF i = 0
            THEN [usedTokens |-> 0, included |-> <<>>, excluded |-> <<>>,
                  stopped |-> FALSE]
            ELSE SelectStep(F[i - 1], deduplicated[i], maxTokens)
    IN  F[Len(deduplicated)]

\* The rendering loop of format, the summary line and the final trim()
RenderSection(section, opts) ==
    section.content
        \o (IF opts.includeMetadata
            THEN <<" ", "[">> \o section.source \o <<"]">> ELSE <<>>)
        \o (IF opts.includeTokens
            THEN <<" ", "[">> \o Digits(section.tokens) \o <<"t", "]">>
            ELSE <<>>)

DefaultSeparator == <<"\n", "\n">>

SeparatorOf(opts) ==
    IF opts.separator = Undefined THEN DefaultSeparator
    ELSE opts.separator.s

\* a render that leaves out the trim of line 91
RenderUntrimmed(included, usedTokens, opts) ==
    LET F[i \in 0..Len(included)] ==
            IF i = 0 THEN <<>>
            ELSE F[i - 1] \o RenderSection(included[i], opts)
                          \o SeparatorOf(opts)
        summary ==
            IF opts.includeTokens
            THEN <<"\n", "T", "o", "t", "a", "l", ":", " ">>
                    \o Digits(usedTokens) \o <<"/">>
                    \o Digits(opts.maxTokens)
                    \o <<" ", "t", "o", "k", "e", "n", "s">>
            ELSE <<>>
    IN  F[Len(included)] \o summary

\* lines 63-79 and the trim of line 91
Render(included, usedTokens, opts) ==
    LET F[i \in 0..Len(included)] ==
            IF i = 0 THEN <<>>
            ELSE F[i - 1] \o RenderSection(included[i], opts)
                          \o SeparatorOf(opts)
        summary ==
            IF opts.includeTokens
            THEN <<"\n", "T", "o", "t", "a", "l", ":", " ">>
                    \o Digits(usedTokens) \o <<"/">>
                    \o Digits(opts.maxTokens)
                    \o <<" ", "t", "o", "k", "e", "n", "s">>
            ELSE <<>>
    IN  Trim(F[Len(included)] \o summary)

\* a list of distinct values that keeps the last occurrence of each
DistinctKeepLast(list) ==
    SelectIdx(list, LAMBDA i : \A j \in (i + 1)..Len(list) : list[j] # list[i])

\* Array.from(new Set(list)): first occurrences, in order
Distinct(list) ==
    SelectIdx(list, LAMBDA i : \A j \in 1..(i - 1) : list[j] # list[i])

\* ContextFormatter.format
Format(sections, opts) ==
    LET sorted == SortSections(sections)
        deduplicated == Deduplicate(sorted)
        sel == SelectWithinBudget(deduplicated, opts.maxTokens)
        sources == Distinct([i \in 1..Len(sel.included) |->
                                sel.included[i].source])
        metadata == [totalItems |-> Len(deduplicated),
                     includedItems |-> Len(sel.included),
                     excludedItems |-> Len(sel.excluded),
                     sources |-> sources]
    IN  [formatted |-> Render(sel.included, sel.usedTokens, opts),
         usedTokens |-> sel.usedTokens,
         sections |-> sel.included,
         metadata |-> IF opts.includeMetadata THEN metadata ELSE Undefined]

-----------------------------------------------------------------------------
(* ContextFormatter.format called once on a list the caller built *)

Section(id, content, priority, tokens, source) ==
    [id |-> id, content |-> content, priority |-> priority,
     tokens |-> tokens, source |-> source]

SrcProfile == <<"p", "r", "o", "f", "i", "l", "e">>
SrcSearch == <<"s", "e", "a", "r", "c", "h">>
SrcRecent == <<"r", "e", "c", "e", "n", "t">>

\* The sections a caller draws from: equal and different priorities, ids
\* that differ by case or are equal, contents that are equal after
\* toLowerCase and trim, that hold the same words in another order, that
\* share 6 of 7 and 5 of 6 words, and an empty content.
SectionPool ==
    { Section(<<"a">>, <<"T", "e", "a", " ", "o", "k">>, 2, 3, SrcProfile),
      Section(<<"B">>, <<" ", "t", "e", "a", " ", "O", "K", " ">>, 1, 1,
              SrcSearch),
      Section(<<"b">>, <<"o", "k", " ", "t", "e", "a">>, 1, 2, SrcRecent),
      Section(<<"a", "b">>, <<"x">>, 2, 5, SrcSearch),
      Section(<<"a">>, <<>>, 0, 0, SrcProfile),
      Section(<<"c">>, <<"a", " ", "b", " ", "c", " ", "d", " ", "e", " ",
                         "f", " ", "g">>, 3, 4, SrcRecent),
      Section(<<"d">>, <<"a", " ", "b", " ", "c", " ", "d", " ", "e", " ",
                         "f">>, 1, 2, SrcProfile),
      Section(<<"e">>, <<"a", " ", "b", " ", "c", " ", "d", " ", "e">>, 2, 1,
              SrcSearch) }

SectionLists ==
    UNION {[1..n -> SectionPool] : n \in 0..MaxSections}

FormatOptionsPool ==
    [maxTokens : {1, 3, 6},
     includeTokens : BOOLEAN,
     includeMetadata : BOOLEAN,
     separator : {Undefined, [t |-> "string", s |-> <<",", " ">>]}]

NoResult == [t |-> "pending"]

\* The strings calculateSimilarity is called on: empty, whitespace only,
\* equal up to case and surrounding whitespace, the same words in another
\* order or with longer gaps, and words in part shared
Texts ==
    { <<>>, <<" ">>, <<"\n", " ">>,
      <<"a">>, <<" ", "A", " ">>,
      <<"a", " ", "b">>, <<"b", " ", "a">>, <<"a", " ", " ", "B">>,
      <<"a", " ", "b", " ", "c">>, <<"x">> }

FormatCall ==
    /\ fmtResult = NoResult
    /\ fmtResult' = Format(fmtSections, fmtOptions)
    /\ UNCHANGED <<fmtSections, fmtOptions>>
    /\ UNCHANGED notFmtVars

-----------------------------------------------------------------------------
(* VapiMemory: the constructor, getContext, clearCache, destroy, the timer *)

Bool(b) == [t |-> "boolean", b |-> b]
Str(s) == [t |-> "string", s |-> s]

ProfileCacheMax == 100
DefaultMaxTokens == 2000
\* time is counted in sweep intervals (60000 ms); the default cacheTTL is
\* 60000 ms as well
SweepInterval == 1
DefaultCacheTTL == 1

Users == {"u1", "u2"}

FactTea == <<"l", "i", "k", "e", "s", " ", "t", "e", "a">>
FactX == <<"x">>
FactOkTea == <<"o", "k", " ", "t", "e", "a">>

\* What client.profile can resolve to: a profile without search results, a
\* profile with search results (one of them without a memory field), and a
\* response without a profile field.
ProfileOnly ==
    [t |-> "object",
     profile |-> [static |-> <<FactTea>>, dynamic |-> <<>>],
     searchResults |-> Undefined]
ProfileWithSearch ==
    [t |-> "object",
     profile |-> [static |-> <<>>, dynamic |-> <<FactX>>],
     searchResults |->
        [results |-> <<[memory |-> Str(FactOkTea)], [memory |-> Undefined]>>]]
ProfileMissing ==
    [t |-> "object", profile |-> Undefined, searchResults |-> Undefined]

\* The queries a request can carry
Queries == {Undefined, Str("q1"), Str("q2")}

\* What the backend's search finds for a query: each query has its own
\* memories (one result of the second has no memory field)
MatchesFor(query) ==
    IF query = Str("q1") THEN <<[memory |-> Str(FactTea)]>>
    ELSE IF query = Str("q2")
    THEN <<[memory |-> Undefined], [memory |-> Str(FactX)]>>
    ELSE ProfileWithSearch.searchResults.results

\* A profile with the search results of the query
ProfileWithSearchFor(query) ==
    [ProfileWithSearch EXCEPT !.searchResults.results = MatchesFor(query)]

\* What client.getProfile(userId, query) can resolve to
ProfileResponsesFor(query) ==
    {ProfileOnly, ProfileWithSearchFor(query), ProfileMissing}

ProfileResponses == UNION {ProfileResponsesFor(q) : q \in Queries}

\* What client.search.memories can resolve to
MemoryResponses ==
    { [results |-> <<[memory |-> Str(FactX)]>>],
      [results |-> <<[memory |-> Undefined], [memory |-> Str(FactTea)]>>] }

\* GetContextRequest; an optional field left out is undefined.  One caller
\* asks for one user with every combination of query, callId and the include
\* flags, or with a token budget of its own (which getContext never reads,
\* so it is not combined with the other fields).
Requests ==
    [userId : {"u1"},
     query : Queries,
     callId : {Undefined, Str("call-1")},
     includeProfile : {Undefined, Bool(FALSE)},
     includeRecent : {Undefined, Bool(FALSE)},
     includeSearch : {Undefined, Bool(FALSE)},
     maxTokens : {Undefined}]
    \cup
    [userId : {"u1"},
     query : {Undefined},
     callId : {Undefined},
     includeProfile : {Undefined},
     includeRecent : {Undefined},
     includeSearch : {Undefined},
     maxTokens : {Num(1)}]

\* Callers whose calls overlap ask for either user and leave the optional
\* fields out; without a callId the only await is that of client.getProfile.
OverlapRequests ==
    [userId : Users,
     query : {Undefined},
     callId : {Undefined},
     includeProfile : {Undefined},
     includeRecent : {Undefined},
     includeSearch : {Undefined},
     maxTokens : {Undefined}]

\* One caller asks for one user again and again, every optional field left out
RepeatRequests ==
    [userId : {"u1"},
     query : {Undefined},
     callId : {Undefined},
     includeProfile : {Undefined},
     includeRecent : {Undefined},
     includeSearch : {Undefined},
     maxTokens : {Undefined}]

CallIds == {1, 2}

NoRequest ==
    [userId |-> "", query |-> Undefined, callId |-> Undefined,
     includeProfile |-> Undefined,
     includeRecent |-> Undefined, includeSearch |-> Undefined,
     maxTokens |-> Undefined]

\* A getContext call that has not begun: the FormattedContext of lines 64-73,
\* sources = [], and nothing sent to the backend
NewCall ==
    [pc |-> "idle", req |-> NoRequest,
     profile |-> Undefined, recentMemories |-> <<>>, searchResults |-> <<>>,
     totalTokens |-> 0, sources |-> <<>>, metadataSources |-> <<>>,
     sent |-> <<>>, threw |-> {}, error |-> Undefined, cause |-> Undefined,
     warmAtStart |-> FALSE]

\* results.filter(r => r.memory !== undefined).map(r => r.memory)
MemoriesOf(results) ==
    LET kept == SelectSeq(results, LAMBDA r : r.memory # Undefined)
    IN  [i \in 1..Len(kept) |-> kept[i].memory.s]

\* `profile:${userId}`
CacheKey(userId) == "profile:" \o userId

\* lines 81-99 and 114-131: the profile, its tokens, and the search results
\* that came with it
WithProfile(c, value) ==
    LET p == [static |-> value.profile.static,
              dynamic |-> value.profile.dynamic]
        c1 == [c EXCEPT !.profile = p,
                        !.totalTokens = @ + EstimateMultiple(p.static)
                                          + EstimateMultiple(p.dynamic)]
    IN  c1

WithSearchResults(c, value, tag) ==
    IF value.searchResults # Undefined /\ c.req.includeSearch # Bool(FALSE)
    THEN LET found == MemoriesOf(value.searchResults.results)
         IN  [c EXCEPT !.searchResults = found,
                       !.totalTokens = @ + EstimateMultiple(found),
                       !.sources = Append(@, tag)]
    ELSE c

\* lines 156-162: the record is returned
Returns(c) == [c EXCEPT !.pc = "returned", !.metadataSources = c.sources]

\* cached.profile.static (line 82) of a cached value without a profile field
TypeErrorStatic ==
    [t |-> "Error", name |-> "TypeError",
     message |-> "Cannot read properties of undefined (reading 'static')"]

\* what SupermemoryClient.getProfile throws (its line 43)
FetchProfileError ==
    [t |-> "Error", name |-> "Error",
     message |-> "Failed to fetch profile: Unknown error"]

\* line 165: new Error(`Failed to get context: ${...}`)
ContextError(thrown) ==
    [t |-> "Error", name |-> "Error",
     message |-> "Failed to get context: "
                    \o (IF thrown.t = "Error" THEN thrown.message
                        ELSE "Unknown error")]

\* an outer catch that throws again what it caught
RaisesOriginal(c, thrown) ==
    [c EXCEPT !.pc = "raised", !.error = thrown, !.cause = thrown]

\* lines 163-166: the outer catch; cause is the history of what it caught
Raises(c, thrown) ==
    [c EXCEPT !.pc = "raised", !.error = ContextError(thrown),
              !.cause = thrown]

\* lines 137-154, up to the await: search.memories is called, or the record
\* is returned
ThenRecent(c) ==
    IF c.req.includeRecent # Bool(FALSE) /\ c.req.callId # Undefined
    THEN [c EXCEPT !.pc = "awaitRecent", !.sent = Append(@, "searchMemories")]
    ELSE Returns(c)

\* lines 103-106, up to the await: client.getProfile is called, or the
\* recent-memory step follows
ThenProfile(c) ==
    IF c.profile = Undefined /\ c.req.includeProfile # Bool(FALSE)
    THEN [c EXCEPT !.pc = "awaitProfile", !.sent = Append(@, "profile")]
    ELSE ThenRecent(c)

\* lines 75-101: the cache check, given what profileCache.get returned
AfterCacheCheck(c, cached) ==
    IF cached # Undefined
    THEN IF cached.profile = Undefined
         THEN Raises(c, TypeErrorStatic)
         ELSE ThenProfile(WithSearchResults(
                  WithProfile([c EXCEPT !.sources = Append(@, "cache")],
                              cached),
                  cached, "search"))
    ELSE ThenProfile(c)

UsersCached(c) == {u \in Users : LRUHas(c, CacheKey(u))}

\* history: no response is cached for the user
NeverFetched == -1

\* history: the fetch times of the users whose entry is still in the cache
StillCached(times, c) ==
    [u \in Users |-> IF LRUHas(c, CacheKey(u)) THEN times[u]
                     ELSE NeverFetched]

\* new VapiMemory(options)
VmInit ==
    /\ options \in
          [cacheEnabled : BOOLEAN,
           cacheTTL : {DefaultCacheTTL},
           maxTokens : {DefaultMaxTokens, 2}]
    /\ profileCache = LRUNew(ProfileCacheMax)
    /\ cleanupInterval = options.cacheEnabled
    /\ calls = [i \in CallIds |-> NewCall]
    /\ warm = {}
    /\ fetchedAt = [u \in Users |-> NeverFetched]
    /\ now = 0

\* getContext(request), up to its first await or its return
GetContext(i, request) ==
    /\ calls[i].pc \in {"idle", "returned", "raised"}
    /\ LET key == CacheKey(request.userId)
           c0 == [NewCall EXCEPT !.req = request,
                                 !.warmAtStart = request.userId \in warm]
       IN  IF options.cacheEnabled
           THEN /\ profileCache' = LRUGet(profileCache, key, now)
                /\ calls' = [calls EXCEPT ![i] =
                        AfterCacheCheck(c0, LRUGetValue(profileCache, key))]
           ELSE /\ calls' = [calls EXCEPT ![i] = ThenProfile(c0)]
                /\ UNCHANGED profileCache
    /\ UNCHANGED <<options, cleanupInterval, warm, fetchedAt, now>>
    /\ UNCHANGED notVmVars

\* after the await of client.getProfile: lines 107-131
ProfileResolves(i, response) ==
    /\ calls[i].pc = "awaitProfile"
    /\ LET c == calls[i]
           key == CacheKey(c.req.userId)
           c1 == [c EXCEPT !.sources = Append(@, "profile")]
           \* profile.profile.static of a response without profile throws;
           \* the catch of line 132 takes it
           c2 == IF response.profile = Undefined THEN c1
                 ELSE WithSearchResults(WithProfile(c1, response),
                                        response, "search")
       IN  /\ calls' = [calls EXCEPT ![i] = ThenRecent(c2)]
           /\ profileCache' = IF options.cacheEnabled
                              THEN LRUSet(profileCache, key, response, now)
                              ELSE profileCache
           /\ warm' = (IF options.cacheEnabled /\ response.profile # Undefined
                       THEN warm \cup {c.req.userId} ELSE warm)
                          \cap UsersCached(profileCache')
           /\ fetchedAt' = StillCached(
                  IF options.cacheEnabled
                  THEN [fetchedAt EXCEPT ![c.req.userId] = now]
                  ELSE fetchedAt, profileCache')
    /\ UNCHANGED <<options, cleanupInterval, now>>
    /\ UNCHANGED notVmVars

\* a catch that rethrows to the outer catch
ProfileRejectsRethrows(i) ==
    /\ calls[i].pc = "awaitProfile"
    /\ calls' = [calls EXCEPT ![i] =
            Raises([@ EXCEPT !.threw = @ \cup {"profile"}],
                   FetchProfileError)]
    /\ UNCHANGED <<options, profileCache, cleanupInterval, warm, fetchedAt,
                   now>>
    /\ UNCHANGED notVmVars

\* client.getProfile throws: the catch of lines 132-134
ProfileRejects(i) ==
    /\ calls[i].pc = "awaitProfile"
    /\ calls' = [calls EXCEPT ![i] =
            ThenRecent([@ EXCEPT !.threw = @ \cup {"profile"}])]
    /\ UNCHANGED <<options, profileCache, cleanupInterval, warm, fetchedAt,
                   now>>
    /\ UNCHANGED notVmVars

\* after the await of client.searchMemories: lines 146-150
RecentResolves(i, response) ==
    /\ calls[i].pc = "awaitRecent"
    /\ LET found == MemoriesOf(response.results)
       IN  calls' = [calls EXCEPT ![i] =
               Returns([@ EXCEPT !.recentMemories = found,
                                 !.totalTokens = @ + EstimateMultiple(found),
                                 !.sources = Append(@, "recent-memories")])]
    /\ UNCHANGED <<options, profileCache, cleanupInterval, warm, fetchedAt,
                   now>>
    /\ UNCHANGED notVmVars

\* client.searchMemories throws: the catch of lines 151-153
RecentRejects(i) ==
    /\ calls[i].pc = "awaitRecent"
    /\ calls' = [calls EXCEPT ![i] =
            Returns([@ EXCEPT !.threw = @ \cup {"searchMemories"}])]
    /\ UNCHANGED <<options, profileCache, cleanupInterval, warm, fetchedAt,
                   now>>
    /\ UNCHANGED notVmVars

\* clearCache()
ClearCache ==
    /\ profileCache' = LRUClear(profileCache)
    /\ warm' = {}
    /\ fetchedAt' = StillCached(fetchedAt, profileCache')
    /\ UNCHANGED <<options, cleanupInterval, calls, now>>
    /\ UNCHANGED notVmVars

\* a destroy that clears the cache and leaves the interval timer running
DestroyKeepsTimer ==
    /\ profileCache' = LRUClear(profileCache)
    /\ warm' = {}
    /\ fetchedAt' = StillCached(fetchedAt, profileCache')
    /\ UNCHANGED <<options, cleanupInterval, calls, now>>
    /\ UNCHANGED notVmVars

\* destroy()
Destroy ==
    /\ cleanupInterval' = FALSE
    /\ profileCache' = LRUClear(profileCache)
    /\ warm' = {}
    /\ fetchedAt' = StillCached(fetchedAt, profileCache')
    /\ UNCHANGED <<options, calls, now>>
    /\ UNCHANGED notVmVars

\* a sweep interval passes and the callback removes nothing
TickNoSweep ==
    /\ now' = now + SweepInterval
    /\ UNCHANGED <<options, profileCache, cleanupInterval, calls, warm,
                   fetchedAt>>
    /\ UNCHANGED notVmVars

\* A sweep interval passes; if the interval timer is set its callback runs
\* profileCache.cleanup(cacheTTL)
Tick ==
    /\ now' = now + SweepInterval
    /\ profileCache' = IF cleanupInterval
                       THEN LRUCleanup(profileCache, options.cacheTTL, now')
                       ELSE profileCache
    /\ warm' = warm \cap UsersCached(profileCache')
    /\ fetchedAt' = StillCached(fetchedAt, profileCache')
    /\ UNCHANGED <<options, cleanupInterval, calls>>
    /\ UNCHANGED notVmVars

\* client.getProfile resolves with one of the responses to the call's query
ProfileAnswers(i) ==
    \E p \in ProfileResponsesFor(calls[i].req.query) : ProfileResolves(i, p)

\* getContext, called while the entry it reads has fewer than maxHits hits
GetContextWithin(i, request, maxHits) ==
    /\ LET key == CacheKey(request.userId)
       IN  (options.cacheEnabled /\ LRUHas(profileCache, key)) =>
               profileCache.entries[LRUIndex(profileCache, key)].hits < maxHits
    /\ GetContext(i, request)

\* a sweep interval passes, up to maxClock of them
TickWithin(maxClock) ==
    /\ now < maxClock
    /\ Tick

\* one caller, whose calls follow one another
Next ==
    \/ \E r \in Requests : GetContextWithin(1, r, MaxCacheHits)
    \/ ProfileAnswers(1)
    \/ ProfileRejects(1)
    \/ \E m \in MemoryResponses : RecentResolves(1, m)
    \/ RecentRejects(1)
    \/ ClearCache
    \/ Destroy
    \/ TickWithin(MaxClock)

\* two callers, whose calls overlap at the await of client.getProfile
OverlapNext ==
    \/ \E i \in CallIds, r \in OverlapRequests :
           GetContextWithin(i, r, MaxCacheHits)
    \/ \E i \in CallIds : ProfileAnswers(i)
    \/ \E i \in CallIds : ProfileRejects(i)
    \/ ClearCache
    \/ Destroy
    \/ TickWithin(MaxClock)

\* one caller who keeps asking for the same user while sweeps pass
RepeatNext ==
    \/ \E r \in RepeatRequests : GetContextWithin(1, r, MaxServed)
    \/ ProfileAnswers(1)
    \/ ProfileRejects(1)
    \/ ClearCache
    \/ Destroy
    \/ TickWithin(MaxAgeClock)

-----------------------------------------------------------------------------
(* The LRUCache on its own: a caller issuing any sequence of calls *)

Keys == {"key1", "key2", "key3"}
Values == {Num(1), Num(2)}
MaxAges == {0, 1}

\* history: key is touched (set, or get that hits)
Touch(order, key) == Append(SelectSeq(order, LAMBDA k : k # key), key)
\* history: the keys that left the cache are forgotten
Forget(order, present) == SelectSeq(order, LAMBDA k : k \in present)

KeySet(c) == {c.entries[i].key : i \in 1..Len(c.entries)}

NoCall == [op |-> "new", key |-> "", ret |-> Undefined, gone |-> {}]

\* no format call is part of the run
FormatUnused ==
    /\ fmtSections = <<>>
    /\ fmtOptions = [maxTokens |-> 1, includeTokens |-> FALSE,
                     includeMetadata |-> FALSE, separator |-> Undefined]
    /\ fmtResult = NoResult

\* no calculateSimilarity call is part of the run
SimUnused ==
    /\ simInputs = [str1 |-> <<>>, str2 |-> <<>>]
    /\ simResult = NoResult

\* no get on a full cache is followed
NoPromotion == [phase |-> "none", hit |-> "", orig |-> <<>>, fresh |-> {}]

\* no get has been served
NoneServed == [hit |-> FALSE, miss |-> FALSE]

HistUnused ==
    /\ promo = NoPromotion
    /\ served = NoneServed

\* no LRUCache under test is part of the run
CacheUnused ==
    /\ lru = LRUNew(1)
    /\ lastCall = NoCall
    /\ touched = <<>>

\* no VapiMemory is part of the run
VmUnused ==
    /\ options = [cacheEnabled |-> FALSE, cacheTTL |-> DefaultCacheTTL,
                  maxTokens |-> DefaultMaxTokens]
    /\ profileCache = LRUNew(ProfileCacheMax)
    /\ cleanupInterval = FALSE
    /\ calls = [i \in CallIds |-> NewCall]
    /\ warm = {}
    /\ fetchedAt = [u \in Users |-> NeverFetched]

CacheInit ==
    /\ lru \in {LRUNew(n) : n \in 1..MaxCap}
    /\ now = 0
    /\ lastCall = NoCall
    /\ touched = <<>>
    /\ FormatUnused
    /\ SimUnused
    /\ VmUnused
    /\ HistUnused

CacheGet(key) ==
    /\ LRUHas(lru, key) => lru.entries[LRUIndex(lru, key)].hits < MaxHits
    /\ lru' = LRUGet(lru, key, now)
    /\ lastCall' = [op |-> "get", key |-> key, ret |-> LRUGetValue(lru, key),
                    gone |-> {}]
    /\ touched' = IF LRUHas(lru, key) THEN Touch(touched, key) ELSE touched
    /\ UNCHANGED now
    /\ UNCHANGED notCacheVars

CacheSet(key, value) ==
    /\ lru' = LRUSet(lru, key, value, now)
    /\ lastCall' = [op |-> "set", key |-> key, ret |-> Undefined,
                    gone |-> KeySet(lru) \ KeySet(lru')]
    /\ touched' = Forget(Touch(touched, key), KeySet(lru'))
    /\ UNCHANGED now
    /\ UNCHANGED notCacheVars

CacheHas(key) ==
    /\ lastCall' = [op |-> "has", key |-> key,
                    ret |-> [t |-> "boolean", b |-> LRUHas(lru, key)],
                    gone |-> {}]
    /\ UNCHANGED <<lru, now, touched>>
    /\ UNCHANGED notCacheVars

CacheDelete(key) ==
    /\ lru' = LRUDelete(lru, key)
    /\ lastCall' = [op |-> "delete", key |-> key,
                    ret |-> [t |-> "boolean", b |-> LRUHas(lru, key)],
                    gone |-> {}]
    /\ touched' = Forget(touched, KeySet(lru'))
    /\ UNCHANGED now
    /\ UNCHANGED notCacheVars

CacheClear ==
    /\ lru' = LRUClear(lru)
    /\ lastCall' = [op |-> "clear", key |-> "", ret |-> Undefined, gone |-> {}]
    /\ touched' = Forget(touched, KeySet(lru'))
    /\ UNCHANGED now
    /\ UNCHANGED notCacheVars

CacheCleanup(maxAge) ==
    /\ lru' = LRUCleanup(lru, maxAge, now)
    /\ lastCall' = [op |-> "cleanup", key |-> "",
                    ret |-> Num(LRUCleanupCount(lru, maxAge, now)),
                    gone |-> {}]
    /\ touched' = Forget(touched, KeySet(lru'))
    /\ UNCHANGED now
    /\ UNCHANGED notCacheVars

\* time passes between calls
CacheTick ==
    /\ now < MaxTime
    /\ now' = now + 1
    /\ UNCHANGED <<lru, lastCall, touched>>
    /\ UNCHANGED notCacheVars

CacheNext ==
    \/ \E k \in Keys : CacheGet(k)
    \/ \E k \in Keys, v \in Values : CacheSet(k, v)
    \/ \E k \in Keys : CacheHas(k)
    \/ \E k \in Keys : CacheDelete(k)
    \/ CacheClear
    \/ \E a \in MaxAges : CacheCleanup(a)
    \/ CacheTick

SpecCache == CacheInit /\ [][CacheNext]_vars

-----------------------------------------------------------------------------
(* The LRUCache filled to capacity, one get that hits, then new keys set *)

KeyNames == <<"key1", "key2", "key3", "key4", "key5", "key6", "key7", "key8">>

\* enough keys to fill the largest cache and then set as many new ones
PromoteKeys == {KeyNames[i] : i \in 1..(2 * MaxCap)}

PromoteInit ==
    /\ lru \in {LRUNew(n) : n \in 1..MaxCap}
    /\ now = 0
    /\ lastCall = NoCall
    /\ touched = <<>>
    /\ promo = [NoPromotion EXCEPT !.phase = "fill"]
    /\ served = NoneServed
    /\ FormatUnused
    /\ SimUnused
    /\ VmUnused

\* set(key, value) of a key the cache has not seen, until the cache is full
PromoteFill(key, value) ==
    /\ promo.phase = "fill"
    /\ Len(lru.entries) < lru.maxSize
    /\ ~LRUHas(lru, key)
    /\ CacheSet(key, value)
    /\ UNCHANGED promo

\* get(key) hits in the full cache
PromoteHit(key) ==
    /\ promo.phase = "fill"
    /\ Len(lru.entries) = lru.maxSize
    /\ LRUHas(lru, key)
    /\ lru' = LRUGet(lru, key, now)
    /\ lastCall' = [op |-> "get", key |-> key, ret |-> LRUGetValue(lru, key),
                    gone |-> {}]
    /\ touched' = Touch(touched, key)
    /\ promo' = [phase |-> "insert", hit |-> key, orig |-> LRUKeys(lru),
                 fresh |-> {}]
    /\ UNCHANGED <<now, served>>
    /\ UNCHANGED <<fmtVars, simVars, vmVars>>

\* set(key, value) of a key the cache has never held, up to maxSize of them
PromoteInsert(key, value) ==
    /\ promo.phase = "insert"
    /\ Cardinality(promo.fresh) < lru.maxSize
    /\ key \notin Range(promo.orig) \cup promo.fresh
    /\ lru' = LRUSet(lru, key, value, now)
    /\ lastCall' = [op |-> "set", key |-> key, ret |-> Undefined,
                    gone |-> KeySet(lru) \ KeySet(lru')]
    /\ touched' = Forget(Touch(touched, key), KeySet(lru'))
    /\ promo' = [promo EXCEPT !.fresh = @ \cup {key}]
    /\ UNCHANGED <<now, served>>
    /\ UNCHANGED <<fmtVars, simVars, vmVars>>

PromoteNext ==
    \/ \E k \in PromoteKeys, v \in Values : PromoteFill(k, v)
    \/ \E k \in PromoteKeys : PromoteHit(k)
    \/ \E k \in PromoteKeys, v \in Values : PromoteInsert(k, v)

SpecPromote == PromoteInit /\ [][PromoteNext]_vars

-----------------------------------------------------------------------------
(* The LRUCache with its statistics read: sets, gets that hit or miss, and
   getStats *)

StatsInit ==
    /\ lru \in {LRUNew(n) : n \in 1..MaxCap}
    /\ now = 0
    /\ lastCall = NoCall
    /\ touched = <<>>
    /\ promo = NoPromotion
    /\ served = NoneServed
    /\ FormatUnused
    /\ SimUnused
    /\ VmUnused

\* get(key): a hit if the key is stored, else a miss
StatsGet(key) ==
    /\ LRUHas(lru, key) => lru.entries[LRUIndex(lru, key)].hits < MaxHits
    /\ lru' = LRUGet(lru, key, now)
    /\ lastCall' = [op |-> "get", key |-> key, ret |-> LRUGetValue(lru, key),
                    gone |-> {}]
    /\ touched' = IF LRUHas(lru, key) THEN Touch(touched, key) ELSE touched
    /\ served' = IF LRUHas(lru, key) THEN [served EXCEPT !.hit = TRUE]
                 ELSE [served EXCEPT !.miss = TRUE]
    /\ UNCHANGED <<now, promo>>
    /\ UNCHANGED <<fmtVars, simVars, vmVars>>

\* getStats()
StatsRead ==
    /\ lastCall' = [op |-> "getStats", key |-> "",
                    ret |-> LRUGetStats(lru, now), gone |-> {}]
    /\ UNCHANGED <<lru, now, touched>>
    /\ UNCHANGED notCacheVars

StatsNext ==
    \/ \E k \in Keys, v \in Values : CacheSet(k, v)
    \/ \E k \in Keys : StatsGet(k)
    \/ StatsRead
    \/ CacheTick

SpecStats == StatsInit /\ [][StatsNext]_vars

-----------------------------------------------------------------------------
(* The specifications of format, calculateSimilarity and VapiMemory *)

FormatInit ==
    /\ fmtSections \in SectionLists
    /\ fmtOptions \in FormatOptionsPool
    /\ fmtResult = NoResult
    /\ now = 0
    /\ CacheUnused
    /\ SimUnused
    /\ VmUnused
    /\ HistUnused

FormatNext == FormatCall

SpecFormat == FormatInit /\ [][FormatNext]_vars

\* calculateSimilarity called once on two strings
SimilarityInit ==
    /\ simInputs \in [str1 : Texts, str2 : Texts]
    /\ simResult = NoResult
    /\ now = 0
    /\ CacheUnused
    /\ FormatUnused
    /\ VmUnused
    /\ HistUnused

SimilarityCall ==
    /\ simResult = NoResult
    /\ simResult' = CalculateSimilarity(simInputs.str1, simInputs.str2)
    /\ UNCHANGED simInputs
    /\ UNCHANGED notSimVars

SimilarityNext == SimilarityCall

SpecSimilarity == SimilarityInit /\ [][SimilarityNext]_vars

Init == VmInit /\ CacheUnused /\ FormatUnused /\ SimUnused /\ HistUnused

Spec == Init /\ [][Next]_vars

SpecOverlap == Init /\ [][OverlapNext]_vars

SpecRepeat == Init /\ [][RepeatNext]_vars

-----------------------------------------------------------------------------
(* VapiMemory asked about more users than its cache holds *)

\* the userId of the k-th user
CrowdUser(k) == "u" \o ToString(k)

\* a request for the k-th user, every optional field left out
CrowdRequest(k) ==
    [userId |-> CrowdUser(k),
     query |-> Undefined,
     callId |-> Undefined,
     includeProfile |-> Undefined,
     includeRecent |-> Undefined,
     includeSearch |-> Undefined,
     maxTokens |-> Undefined]

\* the cache is full or one entry short of it
Crowded == Len(profileCache.entries) >= ProfileCacheMax - 1

\* no call is waiting for the backend
NoneInFlight == \A i \in CallIds : calls[i].pc # "awaitProfile"

\* getContext for the k-th user.  While the cache fills, before any time
\* has passed, one caller asks for one new user after the other and the
\* second caller has not begun; once the cache is crowded, either caller
\* asks, also while the other waits: the first for the next user, the second
\* for the next user or the one after, who may be cached or not.
CrowdGetContext(i, k) ==
    /\ k \in 1..(ProfileCacheMax + 2)
    /\ k - Len(profileCache.entries) \in (IF i = 1 THEN {1} ELSE {1, 2})
    /\ ~Crowded => /\ i = 1
                   /\ NoneInFlight
                   /\ calls[2].pc = "idle"
                   /\ now = 0
                   /\ k = Len(profileCache.entries) + 1
    /\ GetContextWithin(i, CrowdRequest(k), MaxCacheHits)

\* client.getProfile resolves with a profile
CrowdProfileAnswers(i) ==
    /\ calls[i].pc = "awaitProfile"
    /\ ProfileResolves(i, ProfileOnly)

\* clearCache() once the cache is crowded
CrowdClearCache ==
    /\ Crowded
    /\ ClearCache

\* a sweep interval passes once the cache is crowded
CrowdTick ==
    /\ Crowded
    /\ TickWithin(MaxClock)

CrowdNext ==
    \/ \E i \in CallIds, k \in 1..(ProfileCacheMax + 2) : CrowdGetContext(i, k)
    \/ \E i \in CallIds : CrowdProfileAnswers(i)
    \/ CrowdClearCache
    \/ CrowdTick

\* new VapiMemory(options) with the default token budget
CrowdInit ==
    /\ Init
    /\ options.maxTokens = DefaultMaxTokens

SpecCrowd == CrowdInit /\ [][CrowdNext]_vars

-----------------------------------------------------------------------------
(* Properties of the LRUCache *)

EntryOf(c, key) == c.entries[LRUIndex(c, key)]

\* C2: for an LRUCache built with maximum N >= 1, after any sequence of set,
\* get, has, delete, clear and cleanup calls the number of stored entries and
\* size() never exceed N.
C2_SizeNeverExceedsMax ==
    /\ Len(lru.entries) <= lru.maxSize
    /\ LRUSize(lru) <= lru.maxSize

\* a set on a full cache evicted a key and left the cache full
C2_Witness ==
    /\ lastCall.op = "set"
    /\ lastCall.gone # {}
    /\ Len(lru.entries) = lru.maxSize
    /\ LRUSize(lru) = lru.maxSize

\* a set that admits a new key into a full cache
AdmitsIntoFull(key) == ~LRUHas(lru, key) /\ Len(lru.entries) >= lru.maxSize

\* C4 (general rule, and the rule for capacity + 1 distinct sets): when set
\* admits a new key into a full cache exactly one entry is evicted, the one
\* least recently touched by a set or a get that hit; every other entry stays
\* as it was and the new key is present.
C4_EvictsLeastRecentlyTouched ==
    [][\A k \in Keys, v \in Values :
        (CacheSet(k, v) /\ AdmitsIntoFull(k)) =>
            /\ KeySet(lru') = (KeySet(lru) \ {Head(touched)}) \cup {k}
            /\ Cardinality(KeySet(lru) \ KeySet(lru')) = 1
            /\ \A o \in KeySet(lru) \ {Head(touched)} :
                   EntryOf(lru', o) = EntryOf(lru, o)
            \* a get that hit just before, in a cache of two or more, survives
            /\ (lastCall.op = "get" /\ lastCall.ret # Undefined
                    /\ lru.maxSize >= 2) =>
                   /\ lastCall.key \in KeySet(lru')
                   /\ lru.entries[1].key \notin KeySet(lru')]_vars

\* a set evicted the least recently touched key of a cache of two, right
\* after a get had promoted the other key
C4_Witness ==
    /\ lastCall.op = "set"
    /\ lastCall.gone # {}
    /\ lru.maxSize >= 2
    /\ Len(lru.entries) = lru.maxSize
    /\ lru.entries[1].hits >= 1
    /\ lastCall.gone \cap KeySet(lru) = {}

\* C4 as stated: after get(k) hits on a full cache and one new key is set, k
\* is present.
C4_AsStated ==
    [][\A k \in Keys, v \in Values :
        (CacheSet(k, v) /\ AdmitsIntoFull(k)
            /\ lastCall.op = "get" /\ lastCall.ret # Undefined) =>
                lastCall.key \in KeySet(lru')]_vars

\* C10: get(key) on a hit returns the stored value, adds one to that entry's
\* hits, sets its timestamp to now and makes it the most recently used entry;
\* the key set, the size and every other entry (and their order) are as
\* before.  On a miss it returns undefined and changes nothing.
C10_GetFrame ==
    [][\A k \in Keys :
        CacheGet(k) =>
            IF LRUHas(lru, k)
            THEN /\ lastCall'.ret = EntryOf(lru, k).value
                 /\ LRUHas(lru', k)
                 /\ EntryOf(lru', k) =
                        [key |-> k, value |-> EntryOf(lru, k).value,
                         timestamp |-> now, hits |-> EntryOf(lru, k).hits + 1]
                 /\ lru'.entries[Len(lru'.entries)].key = k
                 /\ KeySet(lru') = KeySet(lru)
                 /\ Len(lru'.entries) = Len(lru.entries)
                 /\ LRUSize(lru') = LRUSize(lru)
                 /\ lru'.maxSize = lru.maxSize
                 /\ SelectSeq(lru'.entries, LAMBDA e : e.key # k) =
                        SelectSeq(lru.entries, LAMBDA e : e.key # k)
            ELSE /\ lastCall'.ret = Undefined
                 /\ lru' = lru]_vars

\* a get hit an entry that was not the most recent of two, at a later time
\* than the entry was written
C10_Witness ==
    /\ lastCall.op = "get"
    /\ lastCall.ret # Undefined
    /\ Len(lru.entries) >= 2
    /\ lru.entries[Len(lru.entries)].key = lastCall.key
    /\ lru.entries[Len(lru.entries)].hits >= 1
    /\ lru.entries[Len(lru.entries)].timestamp > lru.entries[1].timestamp

\* C11: set(key, value) on a key that is present replaces its value, resets
\* its hits to 0, makes it the most recently used entry, leaves the size as
\* it was and evicts no other key, also when the cache is full.
C11_SetOverwrites ==
    [][\A k \in Keys, v \in Values :
        (CacheSet(k, v) /\ LRUHas(lru, k)) =>
            /\ EntryOf(lru', k) =
                   [key |-> k, value |-> v, timestamp |-> now, hits |-> 0]
            /\ lru'.entries[Len(lru'.entries)].key = k
            /\ LRUSize(lru') = LRUSize(lru)
            /\ Len(lru'.entries) = Len(lru.entries)
            /\ KeySet(lru') = KeySet(lru)
            /\ lastCall'.gone = {}
            /\ SelectSeq(lru'.entries, LAMBDA e : e.key # k) =
                   SelectSeq(lru.entries, LAMBDA e : e.key # k)]_vars

\* a set in a full cache of two wrote over the newer entry, which had been
\* hit, and the older entry is still there
C11_Witness ==
    /\ lastCall.op = "set"
    /\ lastCall.gone = {}
    /\ lru.maxSize = 2
    /\ Len(lru.entries) = 2
    /\ touched = <<lru.entries[1].key, lastCall.key>>
    /\ lru.entries[1].hits >= 1
    /\ lru.entries[2].hits = 0
    /\ lru.entries[2].timestamp > lru.entries[1].timestamp

\* the keys of the entries written before now - maxAge
OlderThan(c, maxAge, t) ==
    {k \in KeySet(c) : EntryOf(c, k).timestamp < t - maxAge}

\* C12: cleanup(maxAge) removes exactly the entries whose timestamp is older
\* than now - maxAge, returns how many it removed, lowers the size by that
\* number and leaves every other entry and their order as they were; when
\* every entry is older it returns the size before the call, and a cleanup
\* right after it returns 0.
C12_CleanupRemovesExpired ==
    [][\A a \in MaxAges :
        CacheCleanup(a) =>
            LET old == OlderThan(lru, a, now)
            IN  /\ KeySet(lru') = KeySet(lru) \ old
                /\ lastCall'.ret = Num(Cardinality(old))
                /\ LRUSize(lru') = LRUSize(lru) - Cardinality(old)
                /\ lru'.entries =
                       SelectSeq(lru.entries, LAMBDA e : e.key \notin old)
                /\ lru'.maxSize = lru.maxSize
                /\ old = KeySet(lru) =>
                       /\ lastCall'.ret = Num(LRUSize(lru))
                       /\ lru'.entries = <<>>
                /\ LRUCleanupCount(lru', a, now') = 0]_vars

\* a cleanup removed one entry of two and kept the other, which is just
\* maxAge old or younger
C12_Witness ==
    /\ lastCall.op = "cleanup"
    /\ lastCall.ret = Num(1)
    /\ Len(lru.entries) = 1
    /\ lru.entries[1].timestamp = now
    /\ now >= 1

-----------------------------------------------------------------------------
(* Properties of ContextFormatter.format *)

Returned == fmtResult # NoResult

TokensOf(sections) == SumSeq([i \in 1..Len(sections) |-> sections[i].tokens])

\* the input in sort order, and what deduplication keeps of it
SortedInput == SortSections(fmtSections)
KeptInput == Deduplicate(SortedInput)

Normalized(section) == Trim(ToLowerCase(section.content))

Similar(a, b) == IsNearDuplicate(CalculateSimilarity(a.content, b.content))

\* C1: for every list of sections and every maxTokens > 0, format returns
\* usedTokens equal to the sum of the tokens of the returned sections, and
\* that sum never exceeds maxTokens.
C1_UsedTokensWithinBudget ==
    Returned =>
        /\ fmtResult.usedTokens = TokensOf(fmtResult.sections)
        /\ TokensOf(fmtResult.sections) <= fmtOptions.maxTokens

\* two or more sections fill the budget exactly and another one is left out
C1_Witness ==
    /\ Returned
    /\ Len(fmtResult.sections) >= 2
    /\ fmtResult.usedTokens = fmtOptions.maxTokens
    /\ Len(KeptInput) > Len(fmtResult.sections)

\* C7: no two returned sections are more than 0.85 similar (so no two have
\* the same content up to case and surrounding whitespace), and every input
\* section dropped as a duplicate is more than 0.85 similar to a section
\* that deduplication kept and that comes before it in the sort order.
C7_NoNearDuplicates ==
    Returned =>
        LET out == fmtResult.sections
            sorted == SortedInput
            kept == Range(Deduplicate(sorted))
        IN  /\ \A i, j \in 1..Len(out) :
                   i < j =>
                       /\ ~Similar(out[i], out[j])
                       /\ Normalized(out[i]) # Normalized(out[j])
            /\ Range(out) \subseteq kept
            /\ \A i \in 1..Len(sorted) :
                   \/ sorted[i] \in kept
                   \/ \E j \in 1..(i - 1) :
                          /\ sorted[j] \in kept
                          /\ Similar(sorted[j], sorted[i])

\* a section with the words of a higher-ranked one in another order, and one
\* equal to it up to case and whitespace, were both dropped
C7_Witness ==
    /\ Returned
    /\ Len(fmtSections) = 3
    /\ Len(fmtResult.sections) = 1
    /\ Len(KeptInput) = 1
    /\ \E i, j \in 1..Len(fmtSections) :
           /\ fmtSections[i].content # <<>>
           /\ Normalized(fmtSections[i]) # Normalized(fmtSections[j])
           /\ Similar(fmtSections[i], fmtSections[j])
    /\ \E i, j \in 1..Len(fmtSections) :
           /\ fmtSections[i].content # fmtSections[j].content
           /\ Normalized(fmtSections[i]) = Normalized(fmtSections[j])

\* C8: the returned sections are in descending order of priority, and those
\* of equal priority in descending order of id (as localeCompare orders
\* ids), whatever the order of the input list.
C8_SortedByPriorityThenId ==
    Returned =>
        \A i \in 1..(Len(fmtResult.sections) - 1) :
            LET a == fmtResult.sections[i]
                b == fmtResult.sections[i + 1]
            IN  \/ a.priority > b.priority
                \/ /\ a.priority = b.priority
                   /\ LocaleCompare(a.id, b.id) >= 0

\* three sections were returned, two of equal priority and different ids,
\* and the input list had them in the opposite order
C8_Witness ==
    /\ Returned
    /\ Len(fmtResult.sections) = 3
    /\ fmtResult.sections[1].priority > fmtResult.sections[2].priority
    /\ fmtResult.sections[2].priority = fmtResult.sections[3].priority
    /\ fmtResult.sections[2].id # fmtResult.sections[3].id
    /\ fmtSections = <<fmtResult.sections[3], fmtResult.sections[2],
                       fmtResult.sections[1]>>

\* of the deduplicated list kept, the positions whose section was returned
IncludedPositions(kept) ==
    {i \in 1..Len(kept) : kept[i] \in Range(fmtResult.sections)}

\* the tokens of the returned sections that come before position i
UsedBefore(kept, inc, i) ==
    SumSeq(SelectIdx([j \in 1..(i - 1) |-> kept[j].tokens],
                     LAMBDA j : j \in inc))

\* C9: the selection is greedy in sort order and never stops early: a
\* deduplicated section is left out exactly when, at its turn, the tokens
\* used so far plus its own exceed maxTokens; a section after one that was
\* left out is still returned when it fits at its turn.
C9_GreedyWithoutStopping ==
    Returned =>
        LET kept == KeptInput
            inc == IncludedPositions(kept)
        IN  /\ \A i \in 1..Len(kept) :
                   i \in inc <=>
                       UsedBefore(kept, inc, i) + kept[i].tokens
                           <= fmtOptions.maxTokens
            /\ fmtResult.sections = SelectIdx(kept, LAMBDA i : i \in inc)

\* a section was left out and a later, smaller one was returned
C9_Witness ==
    /\ Returned
    /\ LET kept == KeptInput
           inc == IncludedPositions(kept)
       IN  \E i, j \in 1..Len(kept) :
               /\ i < j
               /\ i \notin inc
               /\ j \in inc
               /\ kept[j].tokens > 0

-----------------------------------------------------------------------------
(* Properties of VapiMemory.getContext *)

Has(list, x) == x \in Range(list)

\* C3: getContext never raises because a backend call fails.  If the
\* profile call throws, the record returned has no 'profile' in sources and
\* carries the recent memories when that fetch succeeded; if the
\* search.memories call throws, the record keeps the profile and the search
\* results gathered before and has no 'recent-memories' in sources; if both
\* throw, the record returned has empty sources.
C3_BackendFailureIsSwallowed ==
    /\ [](\A i \in CallIds :
            LET c == calls[i]
            IN  /\ c.threw # {} => c.pc # "raised"
                /\ c.pc = "raised" => c.sent = <<>>
                /\ (c.pc = "returned" /\ "profile" \in c.threw) =>
                       /\ ~Has(c.metadataSources, "profile")
                       /\ ("searchMemories" \notin c.threw
                              /\ Has(c.sent, "searchMemories")) =>
                             Has(c.metadataSources, "recent-memories")
                /\ (c.pc = "returned" /\ "searchMemories" \in c.threw) =>
                       /\ ~Has(c.metadataSources, "recent-memories")
                       /\ c.recentMemories = <<>>
                /\ (c.pc = "returned"
                       /\ c.threw = {"profile", "searchMemories"}) =>
                       c.metadataSources = <<>>)
    /\ [][\A i \in CallIds :
            /\ ProfileRejects(i) =>
                   /\ calls'[i].pc \in {"awaitRecent", "returned"}
                   /\ calls'[i].sources = calls[i].sources
            /\ \A m \in MemoryResponses :
                   RecentResolves(i, m) =>
                       /\ calls'[i].pc = "returned"
                       /\ calls'[i].recentMemories = MemoriesOf(m.results)
                       /\ calls'[i].profile = calls[i].profile
                       /\ calls'[i].searchResults = calls[i].searchResults
            /\ RecentRejects(i) =>
                   /\ calls'[i].pc = "returned"
                   /\ calls'[i].profile = calls[i].profile
                   /\ calls'[i].searchResults = calls[i].searchResults
                   /\ calls'[i].metadataSources = calls[i].sources]_vars

\* the profile call threw, search.memories answered, and the record came
\* back with the recent memories as its only source
C3_Witness ==
    \E i \in CallIds :
        /\ calls[i].pc = "returned"
        /\ calls[i].threw = {"profile"}
        /\ calls[i].sent = <<"profile", "searchMemories">>
        /\ calls[i].recentMemories # <<>>
        /\ calls[i].metadataSources = <<"recent-memories">>

\* C5: with caching enabled, once a getContext call has fetched the profile
\* of user u from the backend, a later getContext for u (no sweep removal,
\* clearCache, destroy or eviction of u's entry in between) makes no backend
\* profile call, fills profile from the cache and records 'cache' and not
\* 'profile' in sources.
C5_LaterCallServedFromCache ==
    \A i \in CallIds :
        LET c == calls[i]
        IN  (options.cacheEnabled /\ c.pc # "idle" /\ c.warmAtStart) =>
                /\ c.pc # "raised"
                /\ ~Has(c.sent, "profile")
                /\ c.profile # Undefined
                /\ Has(c.sources, "cache")
                /\ ~Has(c.sources, "profile")

\* the token budget in force for a call
BudgetOf(request) ==
    IF request.maxTokens # Undefined THEN request.maxTokens.n
    ELSE options.maxTokens

\* C6: the record getContext returns never has totalTokens above the budget
\* in force: the request's maxTokens if given, else the configured one.
C6_TotalTokensWithinBudget ==
    \A i \in CallIds :
        calls[i].pc = "returned" =>
            calls[i].totalTokens <= BudgetOf(calls[i].req)

\* C13: when the request sets includeProfile to false, the record returned
\* has no profile, counts no profile tokens and lists neither 'cache' nor
\* 'profile' in sources, whether or not the user's profile is in the cache.
C13_NoProfileWhenExcluded ==
    \A i \in CallIds :
        LET c == calls[i]
        IN  (c.pc = "returned" /\ c.req.includeProfile = Bool(FALSE)) =>
                /\ c.profile = Undefined
                /\ c.totalTokens = EstimateMultiple(c.searchResults)
                                     + EstimateMultiple(c.recentMemories)
                /\ ~Has(c.metadataSources, "cache")
                /\ ~Has(c.metadataSources, "profile")

\* a request that asks for search results for a query
AsksSearch(request) ==
    request.query # Undefined /\ request.includeSearch # Bool(FALSE)

\* C14: search results are not cached.  The searchResults returned for a
\* request with a query and includeSearch come from a backend call made
\* during that request for that query, never from a response an earlier
\* request with another query, or none, left in the cache.
C14_SearchResultsNotCached ==
    \A i \in CallIds :
        LET c == calls[i]
        IN  (c.pc = "returned" /\ AsksSearch(c.req)
                /\ Has(c.metadataSources, "search")) =>
                /\ Has(c.sent, "profile")
                /\ c.searchResults = MemoriesOf(MatchesFor(c.req.query))

\* C15: a call with includeSearch true and a query returns the backend's
\* matching memories for the query in searchResults, also when includeProfile
\* and includeRecent are false: the backend is asked, and unless it fails or
\* answers without search results, what it found is returned.
C15_SearchWithoutProfile ==
    \A i \in CallIds :
        LET c == calls[i]
        IN  (c.pc = "returned" /\ AsksSearch(c.req)
                /\ c.req.includeProfile = Bool(FALSE)
                /\ c.req.includeRecent = Bool(FALSE)) =>
                /\ Has(c.sent, "profile")
                /\ c.searchResults \in
                       {<<>>, MemoriesOf(MatchesFor(c.req.query))}

\* C16: with caching enabled and cacheTTL = T, getContext never serves from
\* the cache a profile fetched from the backend more than T plus one sweep
\* interval earlier (stated for the calls made while the sweep timer runs).
C16_CachedProfileNotOlderThanTTL ==
    [][\A i \in CallIds, r \in RepeatRequests :
        (GetContextWithin(i, r, MaxServed) /\ options.cacheEnabled
            /\ cleanupInterval
            /\ LRUHas(profileCache, CacheKey(r.userId))
            /\ LRUGetValue(profileCache, CacheKey(r.userId)).profile
                   # Undefined) =>
                now - fetchedAt[r.userId] <= options.cacheTTL + SweepInterval
      ]_vars

-----------------------------------------------------------------------------
(* Properties of what ContextFormatter.format renders and reports *)

\* the summary line of a call that used no tokens
EmptySummary(opts) ==
    <<"T", "o", "t", "a", "l", ":", " ", "0", "/">>
        \o Digits(opts.maxTokens) \o <<" ", "t", "o", "k", "e", "n", "s">>

\* C17, as the code has it: on an empty list of sections format returns
\* usedTokens 0 and no sections under every combination of options, and when
\* metadata is requested totalItems, includedItems and excludedItems are 0;
\* formatted is "" when includeTokens is false and the summary line
\* "Total: 0/<maxTokens> tokens" when it is true.
C17_EmptyList ==
    (Returned /\ fmtSections = <<>>) =>
        /\ fmtResult.usedTokens = 0
        /\ fmtResult.sections = <<>>
        /\ fmtOptions.includeMetadata =>
               /\ fmtResult.metadata.totalItems = 0
               /\ fmtResult.metadata.includedItems = 0
               /\ fmtResult.metadata.excludedItems = 0
        /\ fmtResult.formatted =
               IF fmtOptions.includeTokens THEN EmptySummary(fmtOptions)
               ELSE <<>>

\* format returned for an empty list with tokens, metadata and a separator
\* of the caller's
C17_Witness ==
    /\ Returned
    /\ fmtSections = <<>>
    /\ fmtOptions.includeTokens
    /\ fmtOptions.includeMetadata
    /\ fmtOptions.separator # Undefined

\* C17 as stated: for every combination of options format on an empty list
\* returns formatted "", usedTokens 0 and no sections, and zero counts when
\* metadata is requested.
C17_AsStated ==
    (Returned /\ fmtSections = <<>>) =>
        /\ fmtResult.formatted = <<>>
        /\ fmtResult.usedTokens = 0
        /\ fmtResult.sections = <<>>
        /\ fmtOptions.includeMetadata =>
               /\ fmtResult.metadata.totalItems = 0
               /\ fmtResult.metadata.includedItems = 0
               /\ fmtResult.metadata.excludedItems = 0

\* the source labels of a list of sections
SourcesOf(sections) == [i \in 1..Len(sections) |-> sections[i].source]

\* the first position of a value in a list
FirstIndex(list, x) == CHOOSE i \in 1..Len(list) :
    list[i] = x /\ \A j \in 1..(i - 1) : list[j] # x

\* C18: with includeMetadata set, metadata.totalItems is the number of
\* sections left after deduplication and equals includedItems +
\* excludedItems, and metadata.sources lists the distinct source labels of
\* the included sections in the order of their first occurrence; without
\* includeMetadata, metadata is absent.
C18_MetadataCounts ==
    Returned =>
        IF fmtOptions.includeMetadata
        THEN LET md == fmtResult.metadata
                 labels == SourcesOf(fmtResult.sections)
             IN  /\ md.totalItems = Len(KeptInput)
                 /\ md.totalItems = md.includedItems + md.excludedItems
                 /\ md.includedItems = Len(fmtResult.sections)
                 /\ Range(md.sources) = Range(labels)
                 /\ \A i, j \in 1..Len(md.sources) :
                        i < j =>
                            /\ md.sources[i] # md.sources[j]
                            /\ FirstIndex(labels, md.sources[i])
                                   < FirstIndex(labels, md.sources[j])
        ELSE fmtResult.metadata = Undefined

\* three sections were included, the first and the last from one source and
\* the second from another
C18_Witness ==
    /\ Returned
    /\ fmtOptions.includeMetadata
    /\ Len(fmtResult.sections) = 3
    /\ fmtResult.sections[1].source = fmtResult.sections[3].source
    /\ fmtResult.sections[1].source # fmtResult.sections[2].source
    /\ Len(fmtResult.metadata.sources) = 2

\* items joined by a separator
JoinWith(items, sep) ==
    LET F[i \in 0..Len(items)] ==
            IF i = 0 THEN <<>>
            ELSE IF i = 1 THEN items[1]
            ELSE F[i - 1] \o sep \o items[i]
    IN  F[Len(items)]

\* a string ends with a (non-empty) suffix
EndsWith(str, suffix) ==
    /\ Len(str) >= Len(suffix)
    /\ SubSeq(str, Len(str) - Len(suffix) + 1, Len(str)) = suffix

\* C19: the string format renders never ends with the configured separator:
\* with includeTokens false and at least one included section, formatted is
\* exactly the rendered items of the included sections joined by the
\* separator, for any separator.
C19_JoinedBySeparator ==
    (Returned /\ ~fmtOptions.includeTokens /\ fmtResult.sections # <<>>) =>
        /\ ~EndsWith(fmtResult.formatted, SeparatorOf(fmtOptions))
        /\ fmtResult.formatted =
               JoinWith([i \in 1..Len(fmtResult.sections) |->
                            RenderSection(fmtResult.sections[i], fmtOptions)],
                        SeparatorOf(fmtOptions))

-----------------------------------------------------------------------------
(* Properties of ContextFormatter.calculateSimilarity *)

\* a string is empty after trimming
Blank(str) == Trim(str) = <<>>

\* C20, as the code has it: calculateSimilarity returns 0.0 whenever exactly
\* one input is empty after trimming, whatever the other input is; when both
\* are empty after trimming it returns 1.0, the two being equal.
C20_OneEmptyInput ==
    simResult # NoResult =>
        /\ (Blank(simInputs.str1) /\ ~Blank(simInputs.str2)) =>
               simResult.n = 0
        /\ (~Blank(simInputs.str1) /\ Blank(simInputs.str2)) =>
               simResult.n = 0
        /\ (Blank(simInputs.str1) /\ Blank(simInputs.str2)) =>
               simResult.n = simResult.d

\* calculateSimilarity returned for a string of whitespace only and a
\* string with a word
C20_Witness ==
    /\ simResult # NoResult
    /\ simInputs.str1 # <<>>
    /\ Blank(simInputs.str1)
    /\ ~Blank(simInputs.str2)
    /\ simResult.n = 0

\* C20 as stated: calculateSimilarity returns 0.0 whenever either input is
\* empty after trimming, whatever the other input is.
C20_AsStated ==
    (simResult # NoResult
        /\ (Blank(simInputs.str1) \/ Blank(simInputs.str2))) =>
            simResult.n = 0

-----------------------------------------------------------------------------
(* Properties of the sweep timer and of the cache VapiMemory owns *)

\* the entries of the profile cache that a sweep at the current time removes
Stale == Expired(profileCache, options.cacheTTL, now)

\* C21: the sweep timer is started in the constructor exactly when caching
\* is enabled; destroy() stops it and leaves the cache empty; once stopped
\* the timer is never started again and no sweep runs (the passing of a sweep
\* interval leaves the cache as it is); a destroy() right after a destroy()
\* changes nothing.
C21_TimerOwnedByInstance ==
    /\ cleanupInterval = options.cacheEnabled
    /\ [][/\ Destroy =>
                /\ ~cleanupInterval'
                /\ profileCache'.entries = <<>>
                /\ LRUSize(profileCache') = 0
          /\ ~cleanupInterval => ~cleanupInterval'
          /\ (Tick /\ ~cleanupInterval) => profileCache' = profileCache
          /\ (Tick /\ cleanupInterval) =>
                profileCache' = LRUCleanup(profileCache, options.cacheTTL, now')
          /\ (Destroy /\ ~cleanupInterval /\ profileCache.entries = <<>>) =>
                UNCHANGED vars]_vars

\* caching is enabled, the timer was stopped, and an entry written since is
\* still in the cache at a time when a sweep would have removed it
C21_Witness ==
    /\ options.cacheEnabled
    /\ ~cleanupInterval
    /\ Stale # {}

\* C22: every error getContext raises is one Error whose message is
\* 'Failed to get context: ' followed by the message of the error that the
\* outer catch caught; a call that raised returned no record, and a call that
\* did not raise carries no error.
C22_OneErrorShape ==
    \A i \in CallIds :
        LET c == calls[i]
        IN  IF c.pc = "raised"
            THEN /\ c.error.t = "Error"
                 /\ c.error.name = "Error"
                 /\ c.cause.t = "Error"
                 /\ c.error.message =
                        "Failed to get context: " \o c.cause.message
                 /\ c.metadataSources = <<>>
            ELSE c.error = Undefined

\* a call raised on reading the profile of a cached response that has none
C22_Witness ==
    \E i \in CallIds :
        /\ calls[i].pc = "raised"
        /\ calls[i].cause = TypeErrorStatic
        /\ calls[i].sent = <<>>

-----------------------------------------------------------------------------
(* Properties of a get on a full LRUCache followed by sets of new keys *)

\* the keys the cache held at the get, the key of the get left out, oldest
\* first
OthersAtHit == SelectSeq(promo.orig, LAMBDA k : k # promo.hit)

\* C23, as the code has it: on an LRUCache filled to capacity N, after
\* get(k) hits and j further new distinct keys are set, k is still present
\* as long as j < N, and the j least recently used of the other keys have
\* been evicted instead (for j = 1 and k the oldest key, the second-oldest);
\* after N new keys k has been evicted too and the cache holds the N new keys.
C23_PromotedKeySurvives ==
    promo.phase = "insert" =>
        LET j == Cardinality(promo.fresh)
            n == lru.maxSize
            others == OthersAtHit
        IN  /\ j < n =>
                /\ LRUHas(lru, promo.hit)
                /\ KeySet(lru) =
                       {others[i] : i \in (j + 1)..Len(others)}
                           \cup {promo.hit} \cup promo.fresh
            /\ (j = 1 /\ n >= 2 /\ promo.hit = promo.orig[1]) =>
                   ~LRUHas(lru, promo.orig[2])
            /\ j = n =>
                /\ ~LRUHas(lru, promo.hit)
                /\ KeySet(lru) = promo.fresh

\* the oldest key of a full cache of two or more was read, one key short of
\* the capacity was set after it, and it is the only old key left
C23_Witness ==
    /\ promo.phase = "insert"
    /\ lru.maxSize >= 2
    /\ Cardinality(promo.fresh) = lru.maxSize - 1
    /\ promo.hit = promo.orig[1]
    /\ lru.entries[1].key = promo.hit
    /\ lru.entries[1].hits = 1

\* C23 as stated: after get(k) hits on a full cache and capacity further new
\* distinct keys are set, k is still present and the key that was
\* second-oldest has been evicted.
C23_AsStated ==
    (promo.phase = "insert" /\ Cardinality(promo.fresh) = lru.maxSize) =>
        /\ LRUHas(lru, promo.hit)
        /\ Len(promo.orig) >= 2 => ~LRUHas(lru, promo.orig[2])

-----------------------------------------------------------------------------
(* Properties of LRUCache.getStats *)

\* C24: after an LRUCache has served at least one get hit and at least one
\* get miss, getStats().hitRate is strictly greater than 0 and strictly less
\* than 1.
C24_HitRateStrictlyBetween ==
    (lastCall.op = "getStats" /\ served.hit /\ served.miss) =>
        /\ lastCall.ret.hitRate.n > 0
        /\ lastCall.ret.hitRate.n < lastCall.ret.hitRate.d

-----------------------------------------------------------------------------
(* Properties of the backend calls and the sources of getContext *)

\* a getContext call that has ended, by returning a record or by raising
Ended(c) == c.pc \in {"returned", "raised"}

\* the request asks for the recent memories of a call
AsksRecent(request) ==
    request.includeRecent # Bool(FALSE) /\ request.callId # Undefined

\* C25: one getContext request issues at most one backend profile call and
\* at most one search.memories call, one at a time and the profile call
\* first; the profile call is issued exactly when no cached profile was used
\* and includeProfile is not false, the search.memories call exactly when
\* includeRecent is not false and a callId was supplied; with caching
\* disabled the cache is neither read nor written.
C25_BackendCalls ==
    /\ [](\A i \in CallIds :
            LET c == calls[i]
            IN  /\ c.sent \in {<<>>, <<"profile">>, <<"searchMemories">>,
                               <<"profile", "searchMemories">>}
                /\ c.pc = "awaitProfile" => c.sent = <<"profile">>
                /\ Ended(c) =>
                       /\ Has(c.sent, "profile") <=>
                              /\ ~Has(c.sources, "cache")
                              /\ c.req.includeProfile # Bool(FALSE)
                       /\ Has(c.sent, "searchMemories") <=>
                              AsksRecent(c.req))
    /\ [][~options.cacheEnabled => profileCache' = profileCache]_vars

\* a list without the tags that are not in keep, order preserved
Only(list, keep) == SelectSeq(list, LAMBDA x : x \in keep)

\* C26: the sources of every record getContext returns are free of
\* duplicates and in the order of the steps: at most one of 'cache' and
\* 'profile', then 'search' (only after 'cache' or 'profile'), then
\* 'recent-memories'; a tag is present only if its data was placed in the
\* record.
C26_SourcesOrderedAndBacked ==
    \A i \in CallIds :
        LET c == calls[i]
            src == c.metadataSources
        IN  c.pc = "returned" =>
                /\ \A j, k \in 1..Len(src) : j < k => src[j] # src[k]
                /\ Only(src, {"cache", "profile"}) \in
                       {<<>>, <<"cache">>, <<"profile">>}
                /\ \E head \in {<<>>, <<"cache">>, <<"profile">>,
                                <<"cache", "search">>,
                                <<"profile", "search">>} :
                       src \in {head, Append(head, "recent-memories")}
                /\ (Has(src, "cache") \/ Has(src, "profile")) =>
                       c.profile # Undefined
                /\ Has(src, "recent-memories") =>
                       /\ Has(c.sent, "searchMemories")
                       /\ "searchMemories" \notin c.threw
                /\ ~Has(src, "search") => c.searchResults = <<>>
                /\ ~Has(src, "recent-memories") => c.recentMemories = <<>>

\* the profile step of call i ends in its swallowed-failure path: the
\* backend call throws, or its response has no profile to read
ProfileStepFails(i) ==
    \/ ProfileRejects(i)
    \/ \E p \in ProfileResponses :
           p.profile = Undefined /\ ProfileResolves(i, p)

\* C27: when the profile step of getContext ends in its swallowed-failure
\* path, the request has written no entry to the cache and has not added
\* 'profile' to sources; so no later getContext raises because of it.
C27_FailedProfileLeavesNoTrace ==
    /\ [][\A i \in CallIds :
            ProfileStepFails(i) =>
                /\ profileCache' = profileCache
                /\ ~Has(calls'[i].sources, "profile")]_vars
    /\ [](\A i \in CallIds : calls[i].pc # "raised")

\* the time since the last touch (set, or get that hit) of the i-th entry
IdleTime(c, i) == now - c.entries[i].timestamp

\* every entry was touched less than cacheTTL plus one sweep interval ago
NoneOverdue ==
    \A i \in 1..Len(profileCache.entries) :
        IdleTime(profileCache, i) < options.cacheTTL + SweepInterval

\* C28, as the code has it: with caching enabled and until destroy() stops
\* the timer, every entry written to the profile cache that is not touched
\* again is removed by the periodic sweep no later than cacheTTL plus one
\* sweep interval after its last touch: each sweep removes the entries idle
\* for more than cacheTTL, so none is left that long.
C28_SweptWhileTimerRuns ==
    /\ []((options.cacheEnabled /\ cleanupInterval) => NoneOverdue)
    /\ [][(Tick /\ cleanupInterval) =>
            KeySet(profileCache') =
                {k \in KeySet(profileCache) :
                    now' - EntryOf(profileCache, k).timestamp
                        <= options.cacheTTL}]_vars

\* the timer runs, a request fetched and cached a profile, and at the second
\* sweep after it the cache is empty
C28_Witness ==
    /\ options.cacheEnabled
    /\ cleanupInterval
    /\ now = options.cacheTTL + SweepInterval
    /\ calls[1].pc = "returned"
    /\ calls[1].sources = <<"profile">>
    /\ calls[1].profile # Undefined
    /\ profileCache.entries = <<>>

\* C28 as stated: with caching enabled, every entry written to the profile
\* cache that is not touched again is removed by the periodic sweep no later
\* than cacheTTL plus one sweep interval after its last touch.
C28_AsStated ==
    options.cacheEnabled => NoneOverdue

-----------------------------------------------------------------------------
(* Properties of ContextFormatter.format under reordering of its input *)

\* the ids of a list of sections are pairwise distinct
DistinctIds(sections) ==
    \A i, j \in 1..Len(sections) :
        i # j => sections[i].id # sections[j].id

\* the list with the sections at positions i and j exchanged
Exchanged(sections, i, j) ==
    [k \in 1..Len(sections) |->
        IF k = i THEN sections[j] ELSE IF k = j THEN sections[i]
        ELSE sections[k]]

-----------------------------------------------------------------------------
(* Properties of the profile cache under overlapping calls *)

\* C30: under any interleaving, at their await points, of several in-flight
\* getContext calls for the same or different users, clearCache and the
\* sweep timer callback, the profile cache holds at most 100 entries, at most
\* one entry per user key, and its size counter equals the number of stored
\* entries.
C30_CacheConsistentUnderInterleaving ==
    /\ profileCache.maxSize = ProfileCacheMax
    /\ Len(profileCache.entries) <= ProfileCacheMax
    /\ Cardinality(KeySet(profileCache)) = Len(profileCache.entries)
    /\ LRUSize(profileCache) = Len(profileCache.entries)

\* the cache is full, the first user's entry has been evicted, and two calls
\* that overlapped ended after fetching the profiles of two users who are
\* both in the cache
C30_Witness ==
    /\ Len(profileCache.entries) = ProfileCacheMax
    /\ ~LRUHas(profileCache, CacheKey(CrowdUser(1)))
    /\ \A i \in CallIds :
           /\ calls[i].pc = "returned"
           /\ calls[i].sources = <<"profile">>
           /\ LRUHas(profileCache, CacheKey(calls[i].req.userId))
    /\ calls[1].req.userId # calls[2].req.userId

====
